---- MODULE Spec2Model ----
(***************************************************************************)
(* A model of entrofy/plotting.py: the data shaping behind the four        *)
(* plotting functions (plot_fractions, plot, plot_correlation,             *)
(* plot_distribution).  The rendering backend is an opaque sink: a chart   *)
(* is modelled by the data handed to the backend.                          *)
(*                                                                         *)
(* Values are small integers; NaN stands for a missing / non-finite value. *)
(* A fraction (a pandas mean) is the pair <<numerator, denominator>>; a    *)
(* denominator of 0 is the NaN that the mean of no rows gives.             *)
(***************************************************************************)
EXTENDS Integers, Sequences, FiniteSets, TLC

VARIABLES df, pc, args, out, fig_all, col_i

vars == <<df, pc, args, out, fig_all, col_i>>

(* ------------------------------ bounds --------------------------------- *)

\* Rows of the column handed to _make_counts_summary / plot_fractions.
MaxRows == 4

\* Rows of the two-column table handed to plot_correlation / plot_distribution.
MaxTableRows == 4

\* Rows of the table handed to plot.
PlotRows == 2

(* ------------------------------ values --------------------------------- *)

\* The missing / non-finite value (np.nan); np.isfinite is false of it only.
NaN == -1

isfinite(v) == v # NaN

\* Category values of a column, as in "x in {1,2}, y in {1,2}".
CatValues == {1, 2}

\* First row identifier of a table: pandas' default RangeIndex starts at 0,
\* a table read with its own identifiers (or filtered) starts elsewhere.
IndexBases == {0, 1}

RECURSIVE SortedSeq(_)
\* np.sort of a set of keys: ascending.
SortedSeq(S) ==
    IF S = {} THEN <<>>
    ELSE LET m == CHOOSE a \in S : \A b \in S : a <= b
         IN  <<m>> \o SortedSeq(S \ {m})

RECURSIVE SumSeq(_)
SumSeq(s) == IF s = <<>> THEN 0 ELSE Head(s) + SumSeq(Tail(s))

RECURSIVE Flatten(_)
Flatten(ss) == IF ss = <<>> THEN <<>> ELSE Head(ss) \o Flatten(Tail(ss))

SeqsUpTo(S, n) == UNION {[1..k -> S] : k \in 0..n}

Range(s) == {s[k] : k \in DOMAIN s}

(* ------------------------- pandas Series / table ----------------------- *)

\* A Series: row identifiers and values, position by position.
Series(index, values) == [index |-> index, values |-> values]

\* df[label]: KeyError when the table has no such column.
HasColumn(t, label) == label \in DOMAIN t.cols

GetColumn(t, label) == Series(t.index, t.cols[label])

\* The value a Series holds for a row identifier (NaN when absent).
ValueAt(column, id) ==
    IF \E k \in DOMAIN column.index : column.index[k] = id
    THEN column.values[CHOOSE k \in DOMAIN column.index : column.index[k] = id]
    ELSE NaN

\* column[idx] for a list of integer row identifiers on an integer index:
\* one row per identifier of idx, in idx's order, NaN for an identifier the
\* column does not hold.
Select(column, idx) ==
    Series(idx, [k \in DOMAIN idx |-> ValueAt(column, idx[k])])

(* ------------------------------ mappers -------------------------------- *)

\* n_out default of ContinuousMapper / plot_correlation.
DefaultNOut == 3

MinOf(S) == CHOOSE a \in S : \A b \in S : a <= b
MaxOf(S) == CHOOSE a \in S : \A b \in S : a >= b

\* ObjectMapper with the given category labels as target keys.
ObjectMapperOf(keys) ==
    [kind |-> "object", targets |-> keys, lo |-> 0, hi |-> 0]

\* ObjectMapper(column): one category per distinct non-null value.
ObjectMapper(column) ==
    ObjectMapperOf({v \in Range(column.values) : v # NaN})

\* ContinuousMapper(column, n_out): n_out equal-width buckets, labelled
\* 1..n_out, between the smallest and the largest finite value.
ContinuousMapper(column, n_out) ==
    LET fin == {v \in Range(column.values) : isfinite(v)}
    IN  [kind |-> "continuous", targets |-> 1..n_out,
         lo |-> IF fin = {} THEN 0 ELSE MinOf(fin),
         hi |-> IF fin = {} THEN 0 ELSE MaxOf(fin)]

\* The bucket of a finite value: the last bucket is closed on the right.
Bucket(mapper, v) ==
    LET n == Cardinality(mapper.targets)
    IN  IF v < mapper.lo \/ v > mapper.hi THEN 0
        ELSE IF mapper.hi = mapper.lo THEN 1
        ELSE IF v = mapper.hi THEN n
        ELSE ((v - mapper.lo) * n) \div (mapper.hi - mapper.lo) + 1

\* One entry of mapper.transform(column): the indicator of category key for
\* a row holding v.  A missing value is in no category.
Indicator(mapper, v, key) ==
    IF v = NaN THEN 0
    ELSE IF mapper.kind = "object" THEN (IF v = key THEN 1 ELSE 0)
    ELSE (IF Bucket(mapper, v) = key THEN 1 ELSE 0)

\* mapper.transform(column): a row-aligned table, one column per category.
transform(mapper, column) ==
    [k \in DOMAIN column.values |->
        [key \in mapper.targets |-> Indicator(mapper, column.values[k], key)]]

(* ------------------------- _make_counts_summary ------------------------ *)

\* The largest entry of one indicator column (describe().loc["max"]) in the
\* place of its mean.
ColumnMax(binary, key) ==
    <<IF \E k \in DOMAIN binary : binary[k][key] = 1 THEN 1 ELSE 0, 1>>

\* describe().loc["mean"] of one indicator column: the sum over the rows and
\* the number of rows.
ColumnMean(binary, key) ==
    <<SumSeq([k \in DOMAIN binary |-> binary[k][key]]), Len(binary)>>

\* binary.describe() raises ValueError for a table without columns (a mapper
\* without categories); otherwise one row per category: its name, the mean
\* of its indicator column and the datatype tag.
_make_counts_summary(column, key, mapper, datatype) ==
    LET binary == transform(mapper, column)
        names  == SortedSeq(mapper.targets)
    IN  IF mapper.targets = {}
        THEN [status |-> "error", error |-> "ValueError"]
        ELSE [status |-> "ok",
              summary |-> [k \in DOMAIN names |->
                  [label |-> names[k], counts |-> ColumnMean(binary, names[k]),
                   type |-> datatype]]]

(* ----------------------------- plot_fractions -------------------------- *)

\* summary.sort(key): rows in ascending order of their label, rows of one
\* label in the order they had.
SortByLabel(summary) ==
    LET labels == SortedSeq({summary[k].label : k \in DOMAIN summary})
    IN  Flatten([n \in DOMAIN labels |->
                    SelectSeq(summary, LAMBDA row : row.label = labels[n])])

\* plot_fractions summarising the whole column twice (column in the place of
\* column[idx]).
plot_fractions_unselected(column, idx, key, mapper) ==
    LET full     == _make_counts_summary(column, key, mapper, "all")
        selected == _make_counts_summary(column, key, mapper, "selected")
        summary  == SortByLabel(full.summary \o selected.summary)
        fig == [key |-> key, width |-> 4 * Len(full.summary),
                bars |-> summary, hlines |-> SortedSeq(mapper.targets)]
    IN  IF full.status = "error" THEN full
        ELSE IF selected.status = "error" THEN selected
        ELSE [status |-> "ok", fig |-> fig, summary |-> summary]

\* The two summaries, concatenated and sorted by label, and the chart drawn
\* from them; an exception of _make_counts_summary leaves the function.
plot_fractions(column, idx, key, mapper) ==
    LET full     == _make_counts_summary(column, key, mapper, "all")
        selected == _make_counts_summary(Select(column, idx), key,
                                         mapper, "selected")
        summary  == SortByLabel(full.summary \o selected.summary)
        unique_labels == Len(full.summary)
        fig == [key |-> key, width |-> 4 * unique_labels,
                bars |-> summary, hlines |-> SortedSeq(mapper.targets)]
    IN  IF full.status = "error" THEN full
        ELSE IF selected.status = "error" THEN selected
        ELSE [status |-> "ok", fig |-> fig, summary |-> summary]

(* ------------------------------- inputs -------------------------------- *)

\* The values a column of the table may hold.
ColDomain(label) == IF label = "x" THEN CatValues ELSE CatValues \cup {NaN}

\* The tables with the given columns and at most n rows.
Tables(labels, n) ==
    UNION {{[index |-> [k \in 1..m |-> base + k - 1], cols |-> c] :
                base \in IndexBases,
                c \in {f \in [labels -> [1..m -> CatValues \cup {NaN}]] :
                          \A l \in labels : Range(f[l]) \subseteq ColDomain(l)}} :
           m \in 0..n}

\* The selections: lists of distinct row identifiers, some of them possibly
\* not identifiers of the table.
Selections(n) == {SortedSeq(S) : S \in SUBSET (0..n)}

\* The mappers a caller passes for a column.
Mappers(column) ==
    {ObjectMapper(column), ObjectMapperOf(CatValues),
     ContinuousMapper(column, DefaultNOut)}

NoCall == [op |-> "none"]
NoOut  == [status |-> "none"]

(* ---------------------- _make_counts_summary, plot_fractions ----------- *)

InitFractions ==
    /\ df \in Tables({"y"}, MaxRows)
    /\ pc = "idle"
    /\ args = NoCall
    /\ out = NoOut
    /\ fig_all = <<>>
    /\ col_i = 0

MakeCountsSummary ==
    /\ pc = "idle"
    /\ HasColumn(df, "y")
    /\ \E mapper \in Mappers(GetColumn(df, "y")), datatype \in {"all", "selected"} :
          /\ args' = [op |-> "_make_counts_summary", key |-> "y",
                      mapper |-> mapper, datatype |-> datatype]
          /\ out' = _make_counts_summary(GetColumn(df, "y"), "y",
                                         mapper, datatype)
    /\ pc' = "done"
    /\ UNCHANGED <<df, fig_all, col_i>>

PlotFractions ==
    /\ pc = "idle"
    /\ HasColumn(df, "y")
    /\ \E mapper \in Mappers(GetColumn(df, "y")), idx \in Selections(MaxRows) :
          /\ args' = [op |-> "plot_fractions", key |-> "y",
                      mapper |-> mapper, idx |-> idx]
          /\ out' = plot_fractions(GetColumn(df, "y"), idx, "y", mapper)
    /\ pc' = "done"
    /\ UNCHANGED <<df, fig_all, col_i>>

NextFractions == MakeCountsSummary \/ PlotFractions

SpecFractions == InitFractions /\ [][NextFractions]_vars

(* --------------------------------- plot -------------------------------- *)

\* The keys a mappers dictionary may hold: "z" is no column of the table.
MapperKeys == {"x", "y", "z"}

\* mappers.keys(): the keys of the dictionary in its iteration order.
KeyLists ==
    {ks \in SeqsUpTo(MapperKeys, Cardinality(MapperKeys)) :
        \A a, b \in DOMAIN ks : a # b => ks[a] # ks[b]}

\* mappers[c]: the mapper the caller built for column c.
MapperFor(t, c) ==
    IF HasColumn(t, c) THEN ObjectMapper(GetColumn(t, c))
    ELSE ObjectMapperOf(CatValues)

InitPlot ==
    /\ df \in Tables({"x", "y"}, PlotRows)
    /\ pc = "idle"
    /\ args = NoCall
    /\ out = NoOut
    /\ fig_all = <<>>
    /\ col_i = 0

\* plot(df, idx, mappers) up to the loop: columns = mappers.keys(),
\* fig_all = [].
PlotCall ==
    /\ pc = "idle"
    /\ \E columns \in KeyLists, idx \in Selections(PlotRows) :
          args' = [op |-> "plot", columns |-> columns, idx |-> idx]
    /\ pc' = "plot"
    /\ fig_all' = <<>>
    /\ col_i' = 1
    /\ UNCHANGED <<df, out>>

\* fig, _ = plot_fractions(df[c], idx, c, mappers[c]): KeyError of df[c] for
\* a key that is no column, or the exception plot_fractions raises.
PlotOne(t, idx, c) ==
    IF ~HasColumn(t, c)
    THEN [status |-> "error", error |-> "KeyError"]
    ELSE plot_fractions(GetColumn(t, c), idx, c, MapperFor(t, c))

\* One pass of the loop that goes on to the next key when this one fails.
PlotIterate_skip ==
    /\ pc = "plot"
    /\ col_i <= Len(args.columns)
    /\ LET r == PlotOne(df, args.idx, args.columns[col_i])
       IN  IF r.status = "error"
           THEN UNCHANGED fig_all
           ELSE fig_all' = Append(fig_all, r.fig)
    /\ col_i' = col_i + 1
    /\ UNCHANGED <<df, args, out, pc>>

\* One pass of the loop: fig, _ = plot_fractions(df[c], idx, c, mappers[c]);
\* fig_all.append(fig).  An exception leaves plot at once: nothing is
\* returned and no later key is reached.
PlotIterate ==
    /\ pc = "plot"
    /\ col_i <= Len(args.columns)
    /\ LET c == args.columns[col_i]
           r == PlotOne(df, args.idx, c)
       IN  IF r.status = "error"
           THEN /\ out' = [status |-> "error", error |-> r.error, key |-> c]
                /\ pc' = "done"
                /\ UNCHANGED <<fig_all, col_i>>
           ELSE /\ fig_all' = Append(fig_all, r.fig)
                /\ col_i' = col_i + 1
                /\ UNCHANGED <<out, pc>>
    /\ UNCHANGED <<df, args>>

\* return fig_all, once the keys are exhausted.
PlotReturn ==
    /\ pc = "plot"
    /\ col_i > Len(args.columns)
    /\ out' = [status |-> "ok", figs |-> fig_all]
    /\ pc' = "done"
    /\ UNCHANGED <<df, args, fig_all, col_i>>

NextPlot == PlotCall \/ PlotIterate \/ PlotReturn

SpecPlot == InitPlot /\ [][NextPlot]_vars

(* --------------------------- plot_correlation -------------------------- *)

\* prefac default of plot_correlation.
Prefac == 10

\* xmapper=None / ymapper=None.
NoMapper == [kind |-> "none", targets |-> {}, lo |-> 0, hi |-> 0]

\* len(df[(df[xlabel] == xv) & (df[ylabel] == yv)]).
PairCount(t, xlabel, ylabel, xv, yv) ==
    Cardinality({k \in DOMAIN t.index :
                    t.cols[xlabel][k] = xv /\ t.cols[ylabel][k] = yv})

\* _plot_categorical with the marker size the count itself (counts in the
\* place of counts**2.0).
_plot_categorical_linear(t, xlabel, ylabel, x_fields, y_fields, x_keys, y_keys) ==
    LET tuples == Flatten([i \in 1..x_fields |-> [j \in 1..y_fields |-> <<i - 1, j - 1>>]])
        counts == [n \in DOMAIN tuples |->
                      PairCount(t, xlabel, ylabel,
                                x_keys[tuples[n][1] + 1], y_keys[tuples[n][2] + 1])]
        sizes  == counts
        denom  == MaxOf(Range(sizes)) - MinOf(Range(sizes))
    IN  IF tuples = <<>>
        THEN [status |-> "error", error |-> "ValueError"]
        ELSE [status |-> "ok", strategy |-> "categorical", frame |-> t,
              x |-> xlabel, y |-> ylabel, tuples |-> tuples, sizes |-> sizes,
              denom |-> denom,
              colors |-> [n \in DOMAIN sizes |-> <<Prefac * sizes[n], denom>>],
              xticks |-> x_keys, yticks |-> y_keys]

\* The scatter grid: one point (i, j) per pair of categories, its size the
\* square of the pair's row count, its colour prefac * size over
\* (max(sizes) - min(sizes)).  x, y = zip(*tuples) raises ValueError when
\* there is no pair.
_plot_categorical(t, xlabel, ylabel, x_fields, y_fields, x_keys, y_keys) ==
    LET tuples == Flatten([i \in 1..x_fields |-> [j \in 1..y_fields |-> <<i - 1, j - 1>>]])
        counts == [n \in DOMAIN tuples |->
                      PairCount(t, xlabel, ylabel,
                                x_keys[tuples[n][1] + 1], y_keys[tuples[n][2] + 1])]
        sizes  == [n \in DOMAIN counts |-> counts[n] * counts[n]]
        denom  == MaxOf(Range(sizes)) - MinOf(Range(sizes))
    IN  IF tuples = <<>>
        THEN [status |-> "error", error |-> "ValueError"]
        ELSE [status |-> "ok", strategy |-> "categorical", frame |-> t,
              x |-> xlabel, y |-> ylabel, tuples |-> tuples, sizes |-> sizes,
              denom |-> denom,
              colors |-> [n \in DOMAIN sizes |-> <<Prefac * sizes[n], denom>>],
              xticks |-> x_keys, yticks |-> y_keys]

\* binary.stack() filtered to the nonzero entries, and the category name of
\* each entry left: row by row, the categories in ascending order; the new
\* Series gets the default index 0, 1, ...
_convert_continuous_to_categorical(column, mapper) ==
    LET binary == transform(mapper, column)
        names  == SortedSeq(mapper.targets)
        labels == Flatten([k \in DOMAIN binary |->
                      SelectSeq(names, LAMBDA key : binary[k][key] # 0)])
    IN  Series([k \in DOMAIN labels |-> k - 1], labels)

\* pd.DataFrame([a, b]).transpose(): one row per row identifier of a or of
\* b (in ascending order), NaN where a Series has no such identifier.
FrameOfTransposed(a, alabel, b, blabel) ==
    LET ids == SortedSeq(Range(a.index) \cup Range(b.index))
    IN  [index |-> ids,
         cols |-> (alabel :> [k \in DOMAIN ids |-> ValueAt(a, ids[k])])
                  @@ (blabel :> [k \in DOMAIN ids |-> ValueAt(b, ids[k])])]

\* pd.DataFrame([a, b], columns=[xlabel, ylabel]): one row per Series, each
\* reindexed by the column labels; no row identifier is a column label, so
\* every entry is NaN.
FrameOfRows(a, b, xlabel, ylabel) ==
    [index |-> <<0, 1>>,
     cols |-> (xlabel :> <<NaN, NaN>>) @@ (ylabel :> <<NaN, NaN>>)]

_plot_categorical_and_continuous(t, xlabel, ylabel, n_cat, plottype) ==
    [status |-> "ok",
     strategy |-> IF plottype \in {"box", "strip", "swarm", "violin"}
                  THEN plottype ELSE "nothing",
     frame |-> t, x |-> xlabel, y |-> ylabel, n_cat |-> n_cat]

\* The rows where both values are finite go to kdeplot or scatter; any
\* other plottype draws nothing and the axis is returned all the same.
_plot_continuous(t, xlabel, ylabel, plottype) ==
    LET keep == {k \in DOMAIN t.index :
                    isfinite(t.cols[xlabel][k]) /\ isfinite(t.cols[ylabel][k])}
        rows == SortedSeq(keep)
    IN  [status |-> "ok",
         strategy |-> IF plottype \in {"kde", "scatter"} THEN plottype ELSE "nothing",
         x_clean |-> [k \in DOMAIN rows |-> t.cols[xlabel][rows[k]]],
         y_clean |-> [k \in DOMAIN rows |-> t.cols[ylabel][rows[k]]]]

NumFields(mapper) == Cardinality(mapper.targets)

\* The dispatch on the two type tags.  Reading a column the table does not
\* have raises KeyError.
plot_correlation(t, xlabel, ylabel, xmapper, ymapper, xtype, ytype, cat_type, n_out, cont_type) ==
    LET xm == IF xmapper # NoMapper THEN xmapper
              ELSE IF xtype = "categorical" THEN ObjectMapper(GetColumn(t, xlabel))
              ELSE ContinuousMapper(GetColumn(t, xlabel), n_out)
        ym == IF ymapper # NoMapper THEN ymapper
              ELSE IF ytype = "categorical" THEN ObjectMapper(GetColumn(t, ylabel))
              ELSE ContinuousMapper(GetColumn(t, ylabel), n_out)
    IN  IF xtype \notin {"categorical", "continuous"}
        THEN [status |-> "error",
              error |-> "Type of data in xcolumn is not recognized!"]
        ELSE IF ~HasColumn(t, xlabel)
                \/ (ytype \in {"categorical", "continuous"} /\ ~HasColumn(t, ylabel))
        THEN [status |-> "error", error |-> "KeyError"]
        ELSE IF xtype = "categorical" /\ ytype = "categorical"
        THEN _plot_categorical(t, xlabel, ylabel, NumFields(xm), NumFields(ym),
                               SortedSeq(xm.targets), SortedSeq(ym.targets))
        ELSE IF xtype = "categorical" /\ ytype = "continuous"
        THEN IF cat_type = "categorical"
             THEN LET cat_column == _convert_continuous_to_categorical(
                                        GetColumn(t, ylabel), ym)
                      df_temp == FrameOfTransposed(GetColumn(t, xlabel), xlabel,
                                                   cat_column, ylabel)
                  IN  [cat_column |-> cat_column] @@
                      _plot_categorical(df_temp, xlabel, ylabel,
                                        NumFields(xm), NumFields(ym),
                                        SortedSeq(xm.targets), SortedSeq(ym.targets))
             ELSE _plot_categorical_and_continuous(t, xlabel, ylabel,
                                                   NumFields(xm), cat_type)
        ELSE IF xtype = "continuous" /\ ytype = "categorical"
        THEN IF cat_type = "categorical"
             THEN LET cat_column == _convert_continuous_to_categorical(
                                        GetColumn(t, xlabel), xm)
                      df_temp == FrameOfRows(cat_column, GetColumn(t, ylabel),
                                             xlabel, ylabel)
                  IN  [cat_column |-> cat_column] @@
                      _plot_categorical(df_temp, xlabel, ylabel,
                                        NumFields(xm), NumFields(ym),
                                        SortedSeq(xm.targets), SortedSeq(ym.targets))
             ELSE _plot_categorical_and_continuous(t, xlabel, ylabel,
                                                   NumFields(ym), cat_type)
        ELSE IF xtype = "continuous" /\ ytype = "continuous"
        THEN _plot_continuous(t, xlabel, ylabel, cont_type)
        ELSE [status |-> "error", error |-> "Not currently supported!"]

\* The type tags a caller passes; "ordinal" is not a recognised one.
TypeTags == {"categorical", "continuous", "ordinal"}

\* The sub-modes a caller passes.
CatTypes == {"box", "categorical"}
ContTypes == {"kde", "scatter", "hex"}

InitCorrelation ==
    /\ df \in Tables({"x", "y"}, MaxTableRows)
    /\ pc = "idle"
    /\ args = NoCall
    /\ out = NoOut
    /\ fig_all = <<>>
    /\ col_i = 0

\* A call of plot_correlation on the two columns of the table, in either
\* order.  A sub-mode that the chosen types never read keeps its default.
PlotCorrelation ==
    /\ pc = "idle"
    /\ \E xlabel \in {"x", "y"}, xtype \in TypeTags, ytype \in TypeTags,
          cat_type \in CatTypes, cont_type \in ContTypes,
          xmapper \in {NoMapper, ObjectMapperOf(CatValues)} :
          LET ylabel == IF xlabel = "x" THEN "y" ELSE "x"
              mixed  == {xtype, ytype} = {"categorical", "continuous"}
          IN  /\ ~mixed => cat_type = "box"
              /\ ~(xtype = "continuous" /\ ytype = "continuous") => cont_type = "kde"
              /\ ~(xtype = "categorical" /\ ytype = "categorical") => xmapper = NoMapper
              /\ args' = [op |-> "plot_correlation", xlabel |-> xlabel,
                          ylabel |-> ylabel, xmapper |-> xmapper,
                          ymapper |-> NoMapper, xtype |-> xtype, ytype |-> ytype,
                          cat_type |-> cat_type, n_out |-> DefaultNOut,
                          cont_type |-> cont_type]
              /\ out' = plot_correlation(df, xlabel, ylabel, xmapper, NoMapper,
                                         xtype, ytype, cat_type, DefaultNOut,
                                         cont_type)
    /\ pc' = "done"
    /\ UNCHANGED <<df, fig_all, col_i>>

NextCorrelation == PlotCorrelation

SpecCorrelation == InitCorrelation /\ [][NextCorrelation]_vars

(* --------------------------- plot_distribution ------------------------- *)

\* The colour plot_distribution returns: sns.color_palette(cmap, 5)[2].
PaletteColor == "palette[2]"

\* The raise for an unrecognised xtype sits under "if xmapper is None";
\* with a mapper passed, an unrecognised xtype reaches neither drawing
\* branch and the colour is returned.
plot_distribution(t, xlabel, xmapper, xtype) ==
    LET column == GetColumn(t, xlabel)
        xm == IF xmapper # NoMapper THEN xmapper
              ELSE IF xtype = "categorical" THEN ObjectMapper(column)
              ELSE ContinuousMapper(column, DefaultNOut)
        rows == SortedSeq({k \in DOMAIN column.values : isfinite(column.values[k])})
    IN  IF xmapper = NoMapper /\ xtype \notin {"categorical", "continuous"}
        THEN [status |-> "error", error |-> "xtype not valid."]
        ELSE IF xtype \in {"categorical", "continuous"} /\ ~HasColumn(t, xlabel)
        THEN [status |-> "error", error |-> "KeyError"]
        ELSE IF xtype = "categorical"
        THEN LET r == _make_counts_summary(column, xlabel, xm, "all")
             IN  IF r.status = "error" THEN r
                 ELSE [status |-> "ok", c |-> PaletteColor, drawn |-> "barplot",
                       data |-> SortByLabel(r.summary)]
        ELSE IF xtype = "continuous"
        THEN [status |-> "ok", c |-> PaletteColor, drawn |-> "hist",
              data |-> [k \in DOMAIN rows |-> column.values[rows[k]]]]
        ELSE [status |-> "ok", c |-> PaletteColor, drawn |-> "nothing",
              data |-> <<>>]

InitDistribution ==
    /\ df \in Tables({"x", "y"}, MaxTableRows)
    /\ pc = "idle"
    /\ args = NoCall
    /\ out = NoOut
    /\ fig_all = <<>>
    /\ col_i = 0

PlotDistribution ==
    /\ pc = "idle"
    /\ \E xlabel \in {"x", "y"}, xtype \in TypeTags :
          \E xmapper \in {NoMapper} \cup
                         (IF HasColumn(df, xlabel)
                          THEN Mappers(GetColumn(df, xlabel))
                          ELSE {ObjectMapperOf(CatValues)}) :
             /\ args' = [op |-> "plot_distribution", xlabel |-> xlabel,
                         xmapper |-> xmapper, xtype |-> xtype]
             /\ out' = plot_distribution(df, xlabel, xmapper, xtype)
    /\ pc' = "done"
    /\ UNCHANGED <<df, fig_all, col_i>>

NextDistribution == PlotDistribution

SpecDistribution == InitDistribution /\ [][NextDistribution]_vars

(* ------------------------------ the module ----------------------------- *)

Init == InitFractions \/ InitPlot \/ InitCorrelation

Next == NextFractions \/ NextPlot \/ NextCorrelation \/ NextDistribution

Spec == Init /\ [][Next]_vars

(* ======================================================================= *)
(*                               Properties                                *)
(* ======================================================================= *)

\* Equality of two fractions, neither of them NaN.
FracEq(a, b) == a[2] > 0 /\ b[2] > 0 /\ a[1] * b[2] = b[1] * a[2]

\* The rows of a summary for one category and one source tag.
SummaryRows(summary, label, tag) ==
    {k \in DOMAIN summary : summary[k].label = label /\ summary[k].type = tag}

\* Positions of the table's column holding value v.
RowsHolding(label, v) == {k \in DOMAIN df.index : df.cols[label][k] = v}

\* Positions of the table's rows whose identifier the selection names.
SelectedRows(idx) == {k \in DOMAIN df.index : df.index[k] \in Range(idx)}

ValidSelection(idx) == Range(idx) \subseteq Range(df.index)

\* C1: for a one-hot mapper (with at least one category) and a non-empty
\* selection of row identifiers of the column, the summary plot_fractions returns holds for every category
\* exactly one "all" row, whose fraction is (rows of the column in the
\* category) / (rows of the column), and exactly one "selected" row, whose
\* fraction is (selected rows in the category) / (selected rows).
C1_FractionsOfAllAndSelected ==
    (/\ args.op = "plot_fractions"
     /\ args.mapper.kind = "object"
     /\ args.idx # <<>>
     /\ args.mapper.targets # {}
     /\ ValidSelection(args.idx))
    => /\ out.status = "ok"
       /\ Len(out.summary) = 2 * Cardinality(args.mapper.targets)
       /\ \A c \in args.mapper.targets :
            /\ Cardinality(SummaryRows(out.summary, c, "all")) = 1
            /\ Cardinality(SummaryRows(out.summary, c, "selected")) = 1
            /\ \A k \in SummaryRows(out.summary, c, "all") :
                  FracEq(out.summary[k].counts,
                         <<Cardinality(RowsHolding(args.key, c)), Len(df.index)>>)
            /\ \A k \in SummaryRows(out.summary, c, "selected") :
                  FracEq(out.summary[k].counts,
                         <<Cardinality(RowsHolding(args.key, c)
                                         \cap SelectedRows(args.idx)),
                           Cardinality(SelectedRows(args.idx))>>)

\* C1 witness: categories 1 and 2 each hold half of the rows, the selection
\* is exactly the rows of category 1, and the "selected" rows of the summary
\* show 1.0 for category 1 and 0.0 for category 2.
C1_Witness ==
    /\ args.op = "plot_fractions"
    /\ args.mapper.kind = "object"
    /\ args.mapper.targets = {1, 2}
    /\ Len(df.index) = 4
    /\ Cardinality(RowsHolding("y", 1)) = 2
    /\ Cardinality(RowsHolding("y", 2)) = 2
    /\ ValidSelection(args.idx)
    /\ SelectedRows(args.idx) = RowsHolding("y", 1)
    /\ \E k \in SummaryRows(out.summary, 1, "selected") :
          out.summary[k].counts = <<2, 2>>
    /\ \E k \in SummaryRows(out.summary, 2, "selected") :
          out.summary[k].counts = <<0, 2>>
    /\ \E k \in SummaryRows(out.summary, 1, "all") :
          out.summary[k].counts = <<2, 4>>

\* Every row of the column is in exactly one category of the mapper.
MutuallyExclusive(mapper, label) ==
    \A k \in DOMAIN df.index :
        Cardinality({c \in mapper.targets :
                        Indicator(mapper, df.cols[label][k], c) # 0}) = 1

\* C2: for a non-empty column and a mapper that puts every row in exactly
\* one category, each fraction of the summary _make_counts_summary builds
\* lies in [0,1] and the fractions sum to exactly 1.
C2_FractionsSumToOne ==
    (/\ args.op = "_make_counts_summary"
     /\ Len(df.index) > 0
     /\ MutuallyExclusive(args.mapper, args.key))
    => /\ out.status = "ok"
       /\ \A k \in DOMAIN out.summary :
            /\ out.summary[k].counts[2] = Len(df.index)
            /\ 0 <= out.summary[k].counts[1]
            /\ out.summary[k].counts[1] <= out.summary[k].counts[2]
            /\ out.summary[k].type = args.datatype
       /\ SumSeq([k \in DOMAIN out.summary |-> out.summary[k].counts[1]])
             = Len(df.index)

\* C2 witness: a summary of a three-row column over two categories, one of
\* them holding two rows, built with a mutually exclusive mapper.
C2_Witness ==
    /\ args.op = "_make_counts_summary"
    /\ Len(df.index) = 3
    /\ MutuallyExclusive(args.mapper, args.key)
    /\ Len(out.summary) = 2
    /\ out.summary[1].counts = <<2, 3>>
    /\ out.summary[2].counts = <<1, 3>>

\* C3: a selection naming an index that is no row identifier of the column
\* makes plot_fractions fail: no chart and no summary are returned.
C3_InvalidSelectionFails ==
    (args.op = "plot_fractions" /\ ~ValidSelection(args.idx))
    => out.status = "error"

\* The keys (by position) for which plot_fractions, or reading its column,
\* fails.
Failing(columns, idx) ==
    {k \in DOMAIN columns :
        \/ ~HasColumn(df, columns[k])
        \/ plot_fractions(GetColumn(df, columns[k]), idx, columns[k],
                          MapperFor(df, columns[k])).status = "error"}

\* The first failing key (0: none).
FirstFailing(columns, idx) ==
    IF Failing(columns, idx) = {} THEN 0 ELSE MinOf(Failing(columns, idx))

\* C4: plot calls plot_fractions once per key of mappers, in the mapping's
\* order, and returns exactly one chart per key in that order; when
\* plot_fractions fails for a key the failure ends the call at that key, no
\* later key is processed and no list is returned.
C4_OneChartPerKeyInOrder ==
    (args.op = "plot")
    => /\ Len(fig_all) <= Len(args.columns)
       /\ \A k \in DOMAIN fig_all :
             fig_all[k] = plot_fractions(GetColumn(df, args.columns[k]), args.idx,
                                         args.columns[k],
                                         MapperFor(df, args.columns[k])).fig
       /\ pc = "plot" => Len(fig_all) = col_i - 1 /\ out.status = "none"
       /\ out.status = "ok"
             => /\ FirstFailing(args.columns, args.idx) = 0
                /\ out.figs = fig_all
                /\ Len(out.figs) = Len(args.columns)
                /\ \A k \in DOMAIN out.figs : out.figs[k].key = args.columns[k]
       /\ out.status = "error"
             => /\ col_i = FirstFailing(args.columns, args.idx)
                /\ Len(fig_all) = col_i - 1
                /\ out.key = args.columns[col_i]
                /\ "figs" \notin DOMAIN out
       /\ pc = "done" => out.status \in {"ok", "error"}
       /\ (pc = "done" /\ FirstFailing(args.columns, args.idx) # 0) => out.status = "error"

\* C4 witness: plot returned the charts of two keys, "y" before "x", the
\* order of the mappers.
C4_Witness ==
    /\ args.op = "plot"
    /\ args.columns = <<"y", "x">>
    /\ Len(df.index) = 2
    /\ out.status = "ok"
    /\ Len(out.figs) = 2
    /\ out.figs[1].key = "y"
    /\ out.figs[2].key = "x"

\* C4 witness of a failure: the second of three keys is no column, the
\* call ended there with one chart drawn and the third key untouched.
C4_WitnessFailure ==
    /\ args.op = "plot"
    /\ args.columns = <<"x", "z", "y">>
    /\ out.status = "error"
    /\ col_i = 2
    /\ Len(fig_all) = 1

\* C4 witness of a failure inside plot_fractions: the column of the second
\* key holds no category, and the call ended there.
C4_WitnessFailureInside ==
    /\ args.op = "plot"
    /\ args.columns = <<"x", "y">>
    /\ out.status = "error"
    /\ out.error = "ValueError"
    /\ col_i = 2
    /\ Len(fig_all) = 1

\* The categories plot_correlation uses for a categorical column: the keys
\* of the mapper passed, or the distinct non-missing values of the column.
Categories(label, mapper) ==
    IF mapper # NoMapper THEN mapper.targets
    ELSE {v \in Range(df.cols[label]) : v # NaN}

CategoricalPair ==
    /\ args.op = "plot_correlation"
    /\ args.xtype = "categorical"
    /\ args.ytype = "categorical"

\* C5: in the categorical x categorical strategy the grid has exactly one
\* point (i, j) for every pair of an x-category and a y-category, and the
\* marker size of (i, j) is the square of the number of table rows whose x
\* value is x_keys[i] and whose y value is y_keys[j].
C5_GridOfSquaredCounts ==
    (CategoricalPair /\ out.status = "ok")
    => LET x_keys == SortedSeq(Categories(args.xlabel, args.xmapper))
           y_keys == SortedSeq(Categories(args.ylabel, args.ymapper))
       IN  /\ Len(out.tuples) = Len(x_keys) * Len(y_keys)
           /\ Len(out.sizes) = Len(out.tuples)
           /\ \A i \in DOMAIN x_keys, j \in DOMAIN y_keys :
                 LET at == {n \in DOMAIN out.tuples :
                               out.tuples[n] = <<i - 1, j - 1>>}
                     rows == {k \in DOMAIN df.index :
                                 /\ df.cols[args.xlabel][k] = x_keys[i]
                                 /\ df.cols[args.ylabel][k] = y_keys[j]}
                 IN  /\ Cardinality(at) = 1
                     /\ \A n \in at :
                           out.sizes[n] = Cardinality(rows) * Cardinality(rows)

\* C5 witness: x in {1,2}, y in {1,2}, every pair on one row of four: four
\* grid points with equal marker sizes.
C5_Witness ==
    /\ CategoricalPair
    /\ args.xmapper = NoMapper
    /\ Len(df.index) = 4
    /\ \A v \in CatValues, w \in CatValues :
          Cardinality({k \in DOMAIN df.index :
                          df.cols["x"][k] = v /\ df.cols["y"][k] = w}) = 1
    /\ out.status = "ok"
    /\ out.tuples = <<<<0, 0>>, <<0, 1>>, <<1, 0>>, <<1, 1>>>>
    /\ out.sizes = <<1, 1, 1, 1>>

\* C5 witness of unequal sizes: a pair held by two rows has marker size 4.
C5_WitnessSquare ==
    /\ CategoricalPair
    /\ out.status = "ok"
    /\ \E n \in DOMAIN out.sizes : out.sizes[n] = 4

\* C6: _plot_categorical never evaluates the colour quotient with
\* max(count^2) equal to min(count^2).
C6_QuotientGuarded ==
    (/\ args.op = "plot_correlation"
     /\ out.status = "ok"
     /\ out.strategy = "categorical")
    => out.denom # 0

\* C7: plot_distribution with a type tag that is neither "categorical" nor
\* "continuous" fails, whether or not a mapper is passed.
C7_InvalidTypeFails ==
    (/\ args.op = "plot_distribution"
     /\ args.xtype \notin {"categorical", "continuous"})
    => out.status = "error"

\* C8: plot_correlation on two continuous columns with a sub-mode outside
\* {"kde", "scatter"} fails instead of returning the axis.
C8_InvalidModeFails ==
    (/\ args.op = "plot_correlation"
     /\ args.xtype = "continuous"
     /\ args.ytype = "continuous"
     /\ args.cont_type \notin {"kde", "scatter"})
    => out.status = "error"

\* The number of rows of a frame holding the pair (xv, yv).
FramePairs(r, xv, yv) == PairCount(r.frame, r.x, r.y, xv, yv)

\* C9: the continuous x categorical branch mirrors the categorical x
\* continuous one: the call with columns and types swapped gets the same
\* data with x and y exchanged; with cat_type "categorical" the temporary
\* table has one row per table row and the pair counts are the transpose of
\* those of the swapped call.
C9_MirrorOfSwappedCall ==
    (/\ args.op = "plot_correlation"
     /\ args.xtype = "continuous"
     /\ args.ytype = "categorical")
    => LET m == plot_correlation(df, args.ylabel, args.xlabel, args.ymapper,
                                 args.xmapper, "categorical", "continuous",
                                 args.cat_type, args.n_out, args.cont_type)
       IN  /\ out.status = m.status
           /\ out.status = "ok"
                 => /\ out.strategy = m.strategy
                    /\ out.x = m.y
                    /\ out.y = m.x
                    /\ args.cat_type # "categorical" => out.frame = m.frame
                    /\ args.cat_type = "categorical"
                          => /\ Len(out.frame.index) = Len(df.index)
                             /\ \A xv \in Range(out.xticks), yv \in Range(out.yticks) :
                                   FramePairs(out, xv, yv) = FramePairs(m, yv, xv)

\* C10: _convert_continuous_to_categorical gives one entry per input row,
\* the entry of row k is the bucket whose indicator is nonzero for row k,
\* and in the table joined from it row k keeps its identifier and its
\* partner value of the other column.
C10_OneBucketPerRowAligned ==
    (/\ args.op = "plot_correlation"
     /\ args.xtype = "categorical"
     /\ args.ytype = "continuous"
     /\ args.cat_type = "categorical")
    => LET ymapper == ContinuousMapper(GetColumn(df, args.ylabel), args.n_out)
       IN  /\ Len(out.cat_column.values) = Len(df.index)
           /\ \A k \in DOMAIN df.index :
                 Indicator(ymapper, df.cols[args.ylabel][k],
                           out.cat_column.values[k]) # 0
           /\ out.status = "ok"
                 => /\ out.frame.index = df.index
                    /\ out.frame.cols[args.xlabel] = df.cols[args.xlabel]
                    /\ out.frame.cols[args.ylabel] = out.cat_column.values

====
